---- MODULE Spec2Model ----
(***************************************************************************)
(* Due-date detection and multi-channel notification dispatch of e-Khata:  *)
(* NotificationService (sendReminder and its three channel senders) and    *)
(* ReminderScheduler (startAll / stopAll / checkDueReminders /             *)
(* processReminder / cleanupOldNotifications) of                           *)
(* backend/services/notificationService.js.                                *)
(*                                                                         *)
(* Time is the JavaScript Date value: integer milliseconds.  Every await   *)
(* of the asynchronous code that separates two state changes is a step     *)
(* boundary: a scan is the query, then per reminder the guards plus the    *)
(* user lookup, the dispatch, and the save.                                *)
(***************************************************************************)
EXTENDS Integers, Sequences, FiniteSets, TLC

VARIABLES
  clock,      \* wall clock, new Date().getTime()
  rem,        \* Reminder collection: id -> document
  users,      \* User collection: id -> document (a missing id has no user)
  notifs,     \* Notification collection: set of documents
  cfg,        \* NotificationService fields set by the constructor
  jobs,       \* ReminderScheduler.jobs
  cronTasks,  \* node-cron tasks that are scheduled and not stopped
  cleanups,   \* cleanupOldNotifications invocations in flight
  scans,      \* checkDueReminders invocations in flight
  ev          \* the last call that completed, with its inputs and outputs

vars == <<clock, rem, users, notifs, cfg, jobs, cronTasks, cleanups, scans, ev>>

----------------------------------------------------------------------------
(* Bounds *)

NumObs == 2        \* reminders in the collection
MaxInFlight == 2   \* checkDueReminders invocations that may overlap
MaxTasks == 4      \* cron tasks scheduled at the same time
MaxNotifs == 4     \* capacity of the Notification collection
MaxTicks == 11     \* quarters of an hour followed on the cadence

----------------------------------------------------------------------------
(* Time *)

MsPerMinute == 1000 * 60
MsPerHour == 1000 * 60 * 60
MsPerDay == 24 * MsPerHour

\* 01:00 of some day; early enough that clock - 31 days is representable
Clock0 == 12 * MsPerDay + MsPerHour

\* t - n days, subtracted in two halves so that no intermediate value
\* leaves the 32-bit range
DaysBefore(t, n) == (t - (n \div 2) * MsPerDay) - (n - n \div 2) * MsPerDay

CooldownHours == 12
CheckWindowMs == 2 * 60 * 60 * 1000
RetentionDays == 30

\* the instants at which anything happens: 01:00, 02:00, 13:00
Instants == { Clock0 + d : d \in {0, MsPerHour, 12 * MsPerHour} }

\* cron expression */15 * * * *
ScanCadence(t) == t % (15 * MsPerMinute) = 0

\* cron expression 0 2 * * *
CleanupCadence(t) == t % MsPerDay = 2 * MsPerHour

----------------------------------------------------------------------------
(* Documents *)

ObIds == 1 .. NumObs
Channels == {"email", "push", "inApp"}

None == <<>>                     \* null / undefined
Some(v) == <<v>>
IsSet(o) == o # <<>>
Val(o) == o[1]

Absent == [kind |-> "absent", t |-> 0]     \* field not stored
NullDate == [kind |-> "null", t |-> 0]     \* field stored as null
DateAt(t) == [kind |-> "date", t |-> t]

Due1 == Clock0 + 90 * MsPerMinute
Due2 == Clock0 + 12 * MsPerHour + 30 * MsPerMinute

Base ==
  [ status |-> "active",
    dueDate |-> Due1,
    nextDueDate |-> Absent,
    reminderTime |-> 180,
    channelsDefined |-> TRUE,
    channels |-> {"email", "push", "inApp"},
    notificationEmail |-> "",
    user |-> "u1",
    isRecurring |-> TRUE,
    lastNotificationSent |-> None ]

Catalogue ==
  { Base,
    [Base EXCEPT !.status = "paused"],
    [Base EXCEPT !.status = "completed"],
    [Base EXCEPT !.reminderTime = 60],
    [Base EXCEPT !.reminderTime = 60, !.dueDate = Clock0 + 60 * MsPerMinute + 1],
    [Base EXCEPT !.reminderTime = 60, !.dueDate = Clock0 + 61 * MsPerMinute],
    [Base EXCEPT !.dueDate = Clock0],
    [Base EXCEPT !.dueDate = Clock0 - 1],
    [Base EXCEPT !.dueDate = Clock0 + CheckWindowMs],
    [Base EXCEPT !.dueDate = Clock0 + CheckWindowMs + 1],
    [Base EXCEPT !.nextDueDate = NullDate],
    [Base EXCEPT !.dueDate = Clock0 - MsPerDay, !.nextDueDate = DateAt(Due1)],
    [Base EXCEPT !.nextDueDate = DateAt(Clock0 + MsPerDay)],
    [Base EXCEPT !.channels = {"email", "inApp"}],
    [Base EXCEPT !.channels = {"push"}],
    [Base EXCEPT !.channels = {}],
    [Base EXCEPT !.channelsDefined = FALSE, !.channels = {}],
    [Base EXCEPT !.notificationEmail = "custom@x"],
    [Base EXCEPT !.user = "u2"],
    [Base EXCEPT !.user = "u2", !.notificationEmail = "custom@x"],
    [Base EXCEPT !.user = "u3"],
    [Base EXCEPT !.lastNotificationSent = Some(Clock0 - 6 * MsPerHour)],
    [Base EXCEPT !.lastNotificationSent = Some(Clock0 - 12 * MsPerHour)],
    [Base EXCEPT !.lastNotificationSent = Some(Clock0 - 12 * MsPerHour + 1)],
    [Base EXCEPT !.lastNotificationSent = Some(Clock0 - 13 * MsPerHour)] }

\* the reminders tried with a push gateway that lacks credentials
PushDocs == { Base, [Base EXCEPT !.channels = {"push"}] }

\* the first scan of a scheduler started at Clock0
FirstScan == Clock0 + 15 * MsPerMinute

\* never notified, due 2 hours or more after the first scan, on and off the
\* cadence, with lead times from 0 to 3 hours
CadenceDocs ==
  { [Base EXCEPT !.dueDate = FirstScan + CheckWindowMs + off * MsPerMinute,
                 !.reminderTime = lead, !.channels = ch] :
      off \in {0, 7, 15}, lead \in {0, 5, 60, 180},
      ch \in {{"email"}, {"email", "push", "inApp"}} }

\* the other reminders of the collection
Companion == [Base EXCEPT !.channels = {"email"}, !.isRecurring = FALSE]

UserStore ==
  [ u1 |-> [email |-> "user@x"],
    u2 |-> [email |-> ""] ]

InitialNotifs ==
  { [id |-> 1, relatedId |-> 1, isRead |-> TRUE,
     readAt |-> Some(DaysBefore(Clock0, 31))],
    [id |-> 2, relatedId |-> 1, isRead |-> TRUE,
     readAt |-> Some(DaysBefore(Clock0, 29))],
    [id |-> 3, relatedId |-> 1, isRead |-> FALSE, readAt |-> None] }

Configured == [oneSignalAppId |-> "app", oneSignalApiKey |-> "key"]

Unconfigured ==
  { [oneSignalAppId |-> "", oneSignalApiKey |-> ""],
    [oneSignalAppId |-> "app", oneSignalApiKey |-> ""] }

Idle == [pc |-> "idle", list |-> <<>>, pnow |-> 0, user |-> None]

\* the state after construction of both singletons, whatever the collections
Started ==
  /\ clock = Clock0
  /\ users = UserStore
  /\ notifs = InitialNotifs
  /\ jobs = <<>>
  /\ cronTasks = {}
  /\ cleanups = 0
  /\ scans = [s \in 1 .. MaxInFlight |-> Idle]
  /\ ev = [kind |-> "init"]

\* one recurring email reminder due in 90 minutes, the others paused
Init ==
  /\ Started
  /\ cfg = Configured
  /\ rem = [o \in ObIds |->
             IF o = 1 THEN [Base EXCEPT !.channels = {"email"}]
             ELSE [Companion EXCEPT !.status = "paused"]]

\* reminder 1 is any reminder of the catalogue, the others are due with it
InitCatalogue ==
  /\ Started
  /\ \/ cfg = Configured /\ rem \in [ObIds -> Catalogue \cup {Companion}]
     \/ cfg \in Unconfigured /\ rem \in [ObIds -> PushDocs \cup {Companion}]
  /\ \A o \in ObIds \ {1} : rem[o] = Companion

\* reminder 1 is any reminder of CadenceDocs
InitCadence ==
  /\ Started
  /\ cfg = Configured
  /\ rem \in [ObIds -> CadenceDocs \cup {Companion}]
  /\ rem[1] \in CadenceDocs
  /\ \A o \in ObIds \ {1} : rem[o] = Companion

----------------------------------------------------------------------------
(* The CRUD layer (environment) *)

\* reminder.nextDueDate || reminder.dueDate
EffectiveDueDate(reminder) ==
  IF reminder.nextDueDate.kind = "date"
    THEN reminder.nextDueDate.t
    ELSE reminder.dueDate

\* a recurring reminder that has fired is rolled over to its next occurrence
EditNextDueDate(o) ==
  /\ rem[o].nextDueDate # DateAt(Due2)
  /\ rem[o].isRecurring
  /\ EffectiveDueDate(rem[o]) < clock
  /\ IsSet(rem[o].lastNotificationSent)
  /\ rem' = [rem EXCEPT ![o].nextDueDate = DateAt(Due2)]
  /\ ev' = [kind |-> "edit", id |-> o]
  /\ UNCHANGED <<clock, users, notifs, cfg, jobs, cronTasks, cleanups, scans>>

----------------------------------------------------------------------------
(* NotificationService *)

NullResult == [kind |-> "null"]
Result(ok, err) == [kind |-> "result", success |-> ok, error |-> err]

\* a || b on strings: the empty string is falsy
OrElse(a, b) == IF a # "" THEN a ELSE b

\* the whole body is inside try/catch; only the gateway call can fail
sendEmailNotification(reminder, user, emailTo, gw) ==
  IF gw["email"] = "ok"
    THEN [res |-> Result(TRUE, ""), called |-> {"email"}]
    ELSE [res |-> Result(FALSE, "gateway error"), called |-> {"email"}]

\* the credentials test with && in place of ||
sendPushNotification_BothMissing(reminder, user, gw) ==
  IF cfg.oneSignalAppId = "" /\ cfg.oneSignalApiKey = ""
    THEN [res |-> Result(FALSE, "OneSignal not configured"), called |-> {}]
    ELSE IF gw["push"] = "ok"
      THEN [res |-> Result(TRUE, ""), called |-> {"push"}]
      ELSE [res |-> Result(FALSE, "gateway error"), called |-> {"push"}]

sendPushNotification(reminder, user, gw) ==
  IF cfg.oneSignalAppId = "" \/ cfg.oneSignalApiKey = ""
    THEN [res |-> Result(FALSE, "OneSignal not configured"), called |-> {}]
    ELSE IF gw["push"] = "ok"
      THEN [res |-> Result(TRUE, ""), called |-> {"push"}]
      ELSE [res |-> Result(FALSE, "gateway error"), called |-> {"push"}]

\* Notification.create assigns a fresh _id
NewNotification(reminderId) ==
  [id |-> CHOOSE i \in 1 .. (Cardinality(notifs) + 1) :
            \A n \in notifs : n.id # i,
   relatedId |-> reminderId, isRead |-> FALSE, readAt |-> None]

createInAppNotification(reminder, user, gw) ==
  IF gw["inApp"] = "ok"
    THEN [res |-> Result(TRUE, ""), called |-> {"inApp"}]
    ELSE [res |-> Result(FALSE, "store error"), called |-> {"inApp"}]

\* which senders sendReminder calls, in order email, push, inApp
EmailTo(reminder, user) == OrElse(reminder.notificationEmail, user.email)

SendsEmail(reminder, user) ==
  "email" \in reminder.channels /\ EmailTo(reminder, user) # ""

SendsPush(reminder, emailRes) == "push" \in reminder.channels

\* the in-app sender skipped once an earlier channel has failed
SendsInApp_UnlessFailed(reminder, emailRes, pushRes) ==
  /\ "inApp" \in reminder.channels
  /\ \A r \in {emailRes, pushRes} : r.kind = "result" => r.success

SendsInApp(reminder, emailRes, pushRes) == "inApp" \in reminder.channels

\* overall success only if every sender that ran succeeded
OverallSuccess_EveryChannel(emailRes, pushRes, inAppRes) ==
  \A r \in {emailRes, pushRes, inAppRes} : r.kind = "result" => r.success

\* results.success once every enabled sender has returned
OverallSuccess(emailRes, pushRes, inAppRes) == TRUE

sendReminder(reminder, user, gw) ==
  IF ~reminder.channelsDefined
    THEN \* reading reminder.notificationChannels.email raises; the catch
         \* block returns the results with success still false
         [email |-> NullResult, push |-> NullResult, inApp |-> NullResult,
          success |-> FALSE, error |-> "TypeError", emailTo |-> "",
          attempted |-> {}, called |-> {}, threw |-> FALSE]
    ELSE
      LET e == IF SendsEmail(reminder, user)
                 THEN sendEmailNotification(reminder, user,
                                            EmailTo(reminder, user), gw)
                 ELSE [res |-> NullResult, called |-> {}]
          p == IF SendsPush(reminder, e.res)
                 THEN sendPushNotification(reminder, user, gw)
                 ELSE [res |-> NullResult, called |-> {}]
          i == IF SendsInApp(reminder, e.res, p.res)
                 THEN createInAppNotification(reminder, user, gw)
                 ELSE [res |-> NullResult, called |-> {}]
      IN [email |-> e.res, push |-> p.res, inApp |-> i.res,
          success |-> OverallSuccess(e.res, p.res, i.res), error |-> "",
          emailTo |-> IF SendsEmail(reminder, user)
                        THEN EmailTo(reminder, user) ELSE "",
          attempted |->
            (IF SendsEmail(reminder, user) THEN {"email"} ELSE {}) \cup
            (IF SendsPush(reminder, e.res) THEN {"push"} ELSE {}) \cup
            (IF SendsInApp(reminder, e.res, p.res) THEN {"inApp"} ELSE {}),
          called |-> e.called \cup p.called \cup i.called,
          threw |-> FALSE]

----------------------------------------------------------------------------
(* ReminderScheduler *)

\* cron.schedule returns a new task, distinct from every live one
NewTask(name, live) ==
  [id |-> CHOOSE i \in 1 .. (Cardinality(live) + 1) :
            \A t \in live : t.id # i,
   name |-> name]

startAll(overlap) ==
  /\ Cardinality(cronTasks) + 2 <= MaxTasks
  /\ overlap \/ jobs = <<>>
  /\ LET reminderCheckJob == NewTask("reminderCheck", cronTasks)
         cleanupJob == NewTask("cleanup", cronTasks \cup {reminderCheckJob})
     IN /\ cronTasks' = cronTasks \cup {reminderCheckJob, cleanupJob}
        /\ jobs' = jobs \o <<reminderCheckJob, cleanupJob>>
  /\ UNCHANGED <<clock, rem, users, notifs, cfg, cleanups, scans, ev>>

\* the job list emptied without stopping any task
Stopped_None(js) == {}

\* the cron tasks that stopAll stops: those held in this.jobs
Stopped(js) == { js[i] : i \in 1 .. Len(js) }

\* stopAll that also abandons the scans in flight
stopAll_Cancelling ==
  /\ cronTasks' = cronTasks \ Stopped(jobs)
  /\ jobs' = <<>>
  /\ scans' = [s \in 1 .. MaxInFlight |-> Idle]
  /\ ev' = [kind |-> "stopAll", stopped |-> Len(jobs)]
  /\ UNCHANGED <<clock, rem, users, notifs, cfg, cleanups>>

stopAll ==
  /\ cronTasks' = cronTasks \ Stopped(jobs)
  /\ jobs' = <<>>
  /\ ev' = [kind |-> "stopAll", stopped |-> Len(jobs)]
  /\ UNCHANGED <<clock, rem, users, notifs, cfg, cleanups, scans>>

\* { $gte: now, $lte: checkWindow }
InWindow(t, now, checkWindow) == t >= now /\ t <= checkWindow

\* the filter of Reminder.find; a comparison matches only a stored date
MatchesQuery(reminder, now, checkWindow) ==
  /\ reminder.status = "active"
  /\ \/ /\ reminder.nextDueDate.kind = "date"
        /\ InWindow(reminder.nextDueDate.t, now, checkWindow)
     \/ /\ reminder.nextDueDate.kind = "absent"
        /\ InWindow(reminder.dueDate, now, checkWindow)

FindDue(now) ==
  LET checkWindow == now + CheckWindowMs
      Hit(o) == MatchesQuery(rem[o], now, checkWindow)
  IN SelectSeq([o \in 1 .. NumObs |-> o], Hit)

IdleSlots == { s \in 1 .. MaxInFlight : scans[s].pc = "idle" }

NoScanInFlight == \A s \in 1 .. MaxInFlight : scans[s].pc = "idle"

\* the first k idle slots
Slots(k) == { s \in IdleSlots : Cardinality({q \in IdleSlots : q < s}) < k }

\* a query that raised still yielding reminders to process
QueryResult_Partial(q, now) == FindDue(now)

\* await Reminder.find(...) inside the try block: the reminders found, or
\* the catch block and nothing to process
QueryResult(q, now) == IF q = "ok" THEN FindDue(now) ELSE <<>>

\* checkDueReminders up to the first call of processReminder, invoked k
\* times at the instant now (k > 1: by k cron tasks at the same tick)
checkDueReminders(k, origin, now) ==
  /\ k <= Cardinality(IdleSlots)
  /\ \E q \in {"ok", "raise"} :
       LET found == QueryResult(q, now)
           list == [i \in 1 .. Len(found) |->
                      [id |-> found[i], doc |-> rem[found[i]]]]
           started == [pc |-> "loop", list |-> list, pnow |-> 0,
                       user |-> None]
       IN /\ scans' = [s \in 1 .. MaxInFlight |->
                         IF s \in Slots(k) /\ list # <<>>
                           THEN started ELSE scans[s]]
          /\ ev' = [kind |-> "scan", origin |-> origin, now |-> now,
                    raised |-> (q = "raise"), count |-> k,
                    found |-> { found[i] : i \in 1 .. Len(found) }]

\* the cron tasks whose expression matches the instant t
DueTasks(name, t) ==
  { task \in cronTasks :
      /\ task.name = name
      /\ IF name = "reminderCheck" THEN ScanCadence(t) ELSE CleanupCadence(t) }

\* the clock reaches the instant t and node-cron runs the callback of every
\* scheduled task whose expression matches t
TickAt(overlap, t) ==
  /\ cleanups = 0
  /\ t > clock
  /\ clock' = t
  /\ cleanups' = Cardinality(DueTasks("cleanup", t))
  /\ LET k == Cardinality(DueTasks("reminderCheck", t))
     IN IF k = 0
          THEN /\ ev' = [kind |-> "tick"]
               /\ UNCHANGED scans
          ELSE /\ overlap \/ NoScanInFlight
               /\ checkDueReminders(k, "cron", t)
  /\ UNCHANGED <<rem, users, notifs, cfg, jobs, cronTasks>>

\* the clock jumps to one of the observed instants
Tick(overlap) == \E t \in Instants : TickAt(overlap, t)

\* the clock reaches the next quarter of an hour with the scheduler started
\* and the previous scan finished
CadenceTick ==
  /\ jobs # <<>>
  /\ clock < Clock0 + MaxTicks * 15 * MsPerMinute
  /\ TickAt(FALSE, clock + 15 * MsPerMinute)

triggerReminderCheck(overlap) ==
  /\ overlap \/ NoScanInFlight
  /\ checkDueReminders(1, "manual", clock)
  /\ UNCHANGED <<clock, rem, users, notifs, cfg, jobs, cronTasks, cleanups>>

\* Math.floor((dueDate - now) / (1000 * 60))
MinutesUntilDue(reminder, now) ==
  (EffectiveDueDate(reminder) - now) \div MsPerMinute

\* the lead time taken for hours
ShouldNotify_LeadInHours(minutesUntilDue, reminderTime) ==
  minutesUntilDue <= reminderTime * 60

ShouldNotify(minutesUntilDue, reminderTime) == minutesUntilDue <= reminderTime

\* a cooldown of one hour, shorter than the scan window
RecentlyNotified_OneHour(last, now) ==
  IsSet(last) /\ (now - Val(last)) < MsPerHour

\* no cooldown check at all
RecentlyNotified_Never(last, now) == FALSE

\* the cooldown compared against 11 hours
RecentlyNotified_ElevenHours(last, now) ==
  IsSet(last) /\ (now - Val(last)) < 11 * MsPerHour

\* lastNotificationSent is set and (now - it) / (1000*60*60) < 12
RecentlyNotified(last, now) ==
  IsSet(last) /\ (now - Val(last)) < CooldownHours * MsPerHour

\* the scan given up once a reminder is done with
Advance_Abort(sc) == Idle

\* the reminder is done with: the for loop moves on, or the scan ends
Advance(sc) ==
  IF Len(sc.list) <= 1 THEN Idle
  ELSE [sc EXCEPT !.pc = "loop", !.list = Tail(sc.list), !.pnow = 0,
                  !.user = None]

\* a lookup that makes up a user when none is stored
findById_Default(id) ==
  IF id \in DOMAIN users THEN Some(users[id]) ELSE Some([email |-> ""])

\* User.findById: the document, or null
findById(id) == IF id \in DOMAIN users THEN Some(users[id]) ELSE None

\* processReminder up to the call of sendReminder
processReminder(s) ==
  /\ scans[s].pc = "loop"
  /\ LET sc == scans[s]
         reminder == Head(sc.list).doc
         now == clock
         minutesUntilDue == MinutesUntilDue(reminder, now)
         Done(outcome) ==
           /\ scans' = [scans EXCEPT ![s] = Advance(sc)]
           /\ ev' = [kind |-> "process", scan |-> s, id |-> Head(sc.list).id,
                     doc |-> reminder, now |-> now,
                     minutesUntilDue |-> minutesUntilDue, outcome |-> outcome]
     IN IF RecentlyNotified(reminder.lastNotificationSent, now)
          THEN Done("suppressed")
        ELSE IF ~ShouldNotify(minutesUntilDue, reminder.reminderTime)
          THEN Done("notYet")
        ELSE \E lookup \in {"ok", "raise"} :
               IF lookup = "raise" THEN Done("lookupRaised")
               ELSE IF ~IsSet(findById(reminder.user)) THEN Done("noUser")
               ELSE /\ scans' = [scans EXCEPT ![s] =
                                   [sc EXCEPT !.pc = "send", !.pnow = now,
                                      !.user = findById(reminder.user)]]
                    /\ ev' = [kind |-> "process", scan |-> s, id |-> Head(sc.list).id,
                              doc |-> reminder, now |-> now,
                              minutesUntilDue |-> minutesUntilDue,
                              outcome |-> "dispatch"]
  /\ UNCHANGED <<clock, rem, users, notifs, cfg, jobs, cronTasks, cleanups>>

\* the timestamp saved whatever the dispatcher returned
ShouldSave_Always(result) == TRUE

\* if (result.success)
ShouldSave(result) == result.success

\* await notificationService.sendReminder(reminder, user)
dispatch(s) ==
  /\ scans[s].pc = "send"
  /\ \E gw \in [Channels -> {"ok", "fail"}] :
       LET sc == scans[s]
           reminder == Head(sc.list).doc
           result == sendReminder(reminder, Val(sc.user), gw)
           created == result.inApp = Result(TRUE, "")
       IN /\ \A c \in Channels \ reminder.channels : gw[c] = "ok"
          /\ gw["inApp"] = "ok" /\ "inApp" \in reminder.channels
               => Cardinality(notifs) < MaxNotifs
          /\ notifs' = IF created
                         THEN notifs \cup {NewNotification(Head(sc.list).id)}
                         ELSE notifs
          /\ scans' = [scans EXCEPT ![s] =
                         IF ShouldSave(result) THEN [sc EXCEPT !.pc = "save"]
                         ELSE Advance(sc)]
          /\ ev' = [kind |-> "send", scan |-> s, id |-> Head(sc.list).id,
                    doc |-> reminder, user |-> Val(sc.user), gw |-> gw,
                    result |-> result, now |-> sc.pnow]
  /\ UNCHANGED <<clock, rem, users, cfg, jobs, cronTasks, cleanups>>

\* reminder.lastNotificationSent = now
NotifiedAt(now) == Some(now)

\* the scan's copy written back whole
Saved_WholeDocument(stored, copy, now) ==
  [copy EXCEPT !.lastNotificationSent = NotifiedAt(now)]

\* the stored document once the modified path of the copy is written
Saved(stored, copy, now) ==
  [stored EXCEPT !.lastNotificationSent = NotifiedAt(now)]

\* await reminder.save(): writes the modified path, or raises
save(s) ==
  /\ scans[s].pc = "save"
  /\ \E ok \in BOOLEAN :
       LET sc == scans[s]
           id == Head(sc.list).id
       IN /\ rem' = IF ok
                      THEN [rem EXCEPT ![id] =
                              Saved(rem[id], Head(sc.list).doc, sc.pnow)]
                      ELSE rem
          /\ scans' = [scans EXCEPT ![s] = Advance(sc)]
          /\ ev' = [kind |-> "save", scan |-> s, id |-> id, now |-> sc.pnow,
                    ok |-> ok,
                    old |-> rem[id].lastNotificationSent]
  /\ UNCHANGED <<clock, users, notifs, cfg, jobs, cronTasks, cleanups>>

\* thirtyDaysAgo.setDate(thirtyDaysAgo.getDate() - 30)
ThirtyDaysAgo(now) == DaysBefore(now, RetentionDays)

\* the filter without its readAt condition
Expired_AnyRead(n, thirtyDaysAgo) == n.isRead

\* the filter of Notification.deleteMany
Expired(n, thirtyDaysAgo) ==
  n.isRead /\ IsSet(n.readAt) /\ Val(n.readAt) < thirtyDaysAgo

\* the callback of the daily cron task
cleanupOldNotifications ==
  /\ cleanups > 0
  /\ cleanups' = cleanups - 1
  /\ \E ok \in BOOLEAN :
       LET gone == IF ok THEN {n \in notifs : Expired(n, ThirtyDaysAgo(clock))}
                   ELSE {}
       IN /\ notifs' = notifs \ gone
          /\ ev' = [kind |-> "cleanup", now |-> clock, raised |-> ~ok,
                    deleted |-> gone]
  /\ UNCHANGED <<clock, rem, users, cfg, jobs, cronTasks, scans>>

----------------------------------------------------------------------------
(* Specifications *)

Steps(overlap) ==
  \/ Tick(overlap)
  \/ \E o \in ObIds : EditNextDueDate(o)
  \/ startAll(overlap)
  \/ stopAll
  \/ triggerReminderCheck(overlap)
  \/ \E s \in 1 .. MaxInFlight : processReminder(s)
  \/ \E s \in 1 .. MaxInFlight : dispatch(s)
  \/ \E s \in 1 .. MaxInFlight : save(s)
  \/ cleanupOldNotifications

Next == Steps(TRUE)

\* scans may overlap
Spec == Init /\ [][Next]_vars

NextSeq == Steps(FALSE)

\* a scan starts only when no other scan is in flight
SpecSeq == InitCatalogue /\ [][NextSeq]_vars

\* the stores answer, and a dispatch has an enabled channel that works
Reliable ==
  /\ ev'.kind = "scan" => ~ev'.raised
  /\ ev'.kind = "process" => ev'.outcome # "lookupRaised"
  /\ ev'.kind = "send" => \E c \in ev'.doc.channels : ev'.gw[c] = "ok"
  /\ ev'.kind = "save" => ev'.ok

NextCadence ==
  \/ startAll(FALSE)
  \/ CadenceTick /\ Reliable
  \/ \E s \in 1 .. MaxInFlight : processReminder(s) /\ Reliable
  \/ \E s \in 1 .. MaxInFlight : dispatch(s) /\ Reliable
  \/ \E s \in 1 .. MaxInFlight : save(s) /\ Reliable
  \/ cleanupOldNotifications

\* the scheduler started at Clock0 and left running on its cadence, with
\* stores and gateways that work
SpecCadence == InitCadence /\ [][NextCadence]_vars

----------------------------------------------------------------------------
(* Claims *)

\* C1 -- Cooldown, scans not overlapping: processReminder neither reaches
\* the user lookup or the dispatcher nor changes lastNotificationSent for a
\* reminder whose lastNotificationSent is set and less than 12 hours before
\* the processing time, and it suppresses for no other reason than that (at
\* exactly 12 hours it proceeds); so every pipeline write of
\* lastNotificationSent is at least 12 hours after the value it replaces.
C1_Cooldown ==
  /\ [](LET Recent(last, now) == last # <<>> /\ now - last[1] < 12 * 3600000
        IN /\ ev.kind = "process" =>
                (ev.outcome = "suppressed"
                   <=> Recent(rem[ev.id].lastNotificationSent, ev.now))
           /\ ev.kind = "send" =>
                ~Recent(rem[ev.id].lastNotificationSent, ev.now))
  /\ [][\A o \in ObIds :
          rem'[o].lastNotificationSent # rem[o].lastNotificationSent =>
            /\ rem'[o].lastNotificationSent # <<>>
            /\ rem[o].lastNotificationSent # <<>> =>
                 rem'[o].lastNotificationSent[1]
                   - rem[o].lastNotificationSent[1] >= 12 * 3600000]_vars

\* an eligible reminder notified 12 hours less 1 ms ago has been suppressed
C1_Witness ==
  /\ ev.kind = "process"
  /\ ev.outcome = "suppressed"
  /\ ev.minutesUntilDue <= ev.doc.reminderTime
  /\ ev.now - ev.doc.lastNotificationSent[1] = 12 * 3600000 - 1

\* C2 -- processReminder saves lastNotificationSent = now (the time at which
\* it started processing the reminder) exactly when the dispatcher was
\* invoked and returned success = true: after a dispatch the scan is about to
\* save iff result.success; the save, when it goes through, writes that now
\* and otherwise leaves the stored value; and lastNotificationSent changes
\* and a save begins in no other way.
C2_SaveIffSuccess ==
  /\ [](/\ ev.kind = "process" /\ ev.outcome = "dispatch" =>
             /\ scans[ev.scan].pc = "send"
             /\ scans[ev.scan].pnow = clock
        /\ ev.kind = "send" =>
             (ev.result.success = TRUE <=>
                /\ scans[ev.scan].pc = "save"
                /\ Head(scans[ev.scan].list).id = ev.id
                /\ scans[ev.scan].pnow = ev.now)
        /\ ev.kind = "save" =>
             rem[ev.id].lastNotificationSent =
               IF ev.ok THEN <<ev.now>> ELSE ev.old)
  /\ [][/\ \A o \in ObIds :
             rem'[o].lastNotificationSent # rem[o].lastNotificationSent =>
               \E s \in 1 .. MaxInFlight :
                 /\ scans[s].pc = "save"
                 /\ Head(scans[s].list).id = o
                 /\ ev'.kind = "save" /\ ev'.scan = s /\ ev'.ok
                 /\ rem'[o].lastNotificationSent = <<scans[s].pnow>>
        /\ \A s \in 1 .. MaxInFlight :
             scans'[s].pc = "save" /\ scans[s].pc # "save" =>
               /\ scans[s].pc = "send"
               /\ ev'.kind = "send" /\ ev'.scan = s
               /\ ev'.result.success = TRUE]_vars

\* a successful dispatch has been followed by a save of the processing time
C2_Witness ==
  /\ ev.kind = "save"
  /\ ev.ok
  /\ ev.old = <<>>
  /\ rem[ev.id].lastNotificationSent = <<ev.now>>

\* C3 -- starting twice registers no duplicate periodic task: exactly one
\* scan task and one cleanup task are scheduled while the scheduler runs,
\* none while it is stopped, and a cadence tick runs the scan at most once.
C3_NoDuplicateTasks ==
  /\ jobs # <<>> =>
       /\ Cardinality({t \in cronTasks : t.name = "reminderCheck"}) = 1
       /\ Cardinality({t \in cronTasks : t.name = "cleanup"}) = 1
  /\ jobs = <<>> => cronTasks = {}
  /\ ev.kind = "scan" /\ ev.origin = "cron" => ev.count <= 1
  /\ cleanups <= 1

\* C4 -- stopAll cancels every periodic task registered by any earlier
\* startAll and is idempotent: whatever the scheduler held when stopAll was
\* called (nothing included), afterwards the job list is empty and no cron
\* task is scheduled, and while the job list is empty a cadence tick starts
\* neither a scan nor a cleanup.
C4_StopAll ==
  /\ [](jobs = <<>> => cronTasks = {})
  /\ [][/\ ev'.kind = "stopAll" /\ ev' # ev =>
             /\ jobs' = <<>> /\ cronTasks' = {}
             /\ ev'.stopped = Len(jobs)
             /\ jobs = <<>> => cronTasks' = cronTasks
        /\ jobs = <<>> /\ clock' # clock =>
             /\ ev'.kind = "tick"
             /\ scans' = scans
             /\ cleanups' = 0]_vars

\* stopAll has just stopped the four tasks of two startAll calls
C4_Witness ==
  /\ ev.kind = "stopAll"
  /\ ev.stopped = 4
  /\ cronTasks = {}

\* C5 -- channel sends are independent and sendReminder never raises:
\* whatever the enabled channels and whichever gateways or stores fail,
\* sendReminder returns its result object, every enabled channel with a
\* destination has its sender attempted whatever the earlier channels
\* returned, and each attempted channel is recorded with success = true
\* exactly when its gateway or store worked.
C5_IndependentChannels ==
  ev.kind = "send" =>
    LET d == ev.doc
        r == ev.result
        Res(c) == IF c = "email" THEN r.email
                  ELSE IF c = "push" THEN r.push ELSE r.inApp
        Works(c) ==
          /\ ev.gw[c] = "ok"
          /\ c = "push" => cfg.oneSignalAppId # "" /\ cfg.oneSignalApiKey # ""
        HasDestination(c) ==
          c = "email" => d.notificationEmail # "" \/ ev.user.email # ""
    IN /\ ~r.threw
       /\ d.channelsDefined =>
            \A c \in d.channels :
              HasDestination(c) =>
                /\ c \in r.attempted
                /\ Res(c).kind = "result"
                /\ Res(c).success <=> Works(c)

\* the email gateway failed and the in-app sender then ran and succeeded
C5_Witness ==
  /\ ev.kind = "send"
  /\ ev.result.email.kind = "result"
  /\ ev.result.email.success = FALSE
  /\ "inApp" \in ev.result.attempted
  /\ ev.result.inApp.success = TRUE

\* C6 -- the overall success flag is true exactly when the orchestration
\* did not raise, whatever the channels returned (also when every enabled
\* channel failed); a channel that is not enabled has a null result and its
\* sender and gateway are not invoked.
C6_OverallSuccess ==
  ev.kind = "send" =>
    LET d == ev.doc
        r == ev.result
        Res(c) == IF c = "email" THEN r.email
                  ELSE IF c = "push" THEN r.push ELSE r.inApp
        enabled == IF d.channelsDefined THEN d.channels ELSE {}
    IN /\ r.success <=> d.channelsDefined
       /\ r.success <=> r.error = ""
       /\ \A c \in Channels \ enabled :
            /\ Res(c) = [kind |-> "null"]
            /\ c \notin r.attempted
            /\ c \notin r.called

\* every enabled channel failed and the dispatch reports success
C6_Witness ==
  /\ ev.kind = "send"
  /\ ev.result.success = TRUE
  /\ ev.result.attempted = ev.doc.channels
  /\ ev.doc.channels = {"email", "push", "inApp"}
  /\ ev.result.email.success = FALSE
  /\ ev.result.push.success = FALSE
  /\ ev.result.inApp.success = FALSE

\* C7 -- with the email channel enabled the message goes to the reminder's
\* notificationEmail if present, else to the user's email; with neither, the
\* email result is a failure with a reason (not null) and the gateway is not
\* called.
C7_EmailDestination ==
  ev.kind = "send" /\ ev.doc.channelsDefined /\ "email" \in ev.doc.channels =>
    LET d == ev.doc
        r == ev.result
    IN IF d.notificationEmail # ""
         THEN r.emailTo = d.notificationEmail /\ "email" \in r.called
       ELSE IF ev.user.email # ""
         THEN r.emailTo = ev.user.email /\ "email" \in r.called
       ELSE /\ r.email.kind = "result"
            /\ r.email.success = FALSE
            /\ r.email.error # ""
            /\ "email" \notin r.called

\* C8 -- push enabled, push gateway without credentials: the push result is
\* the failure "OneSignal not configured", nothing is raised, the gateway is
\* not called, and the email and in-app senders of the same dispatch are
\* attempted with their own outcomes.
C8_PushNotConfigured ==
  /\ ev.kind = "send"
  /\ ev.doc.channelsDefined
  /\ "push" \in ev.doc.channels
  /\ cfg.oneSignalAppId = "" \/ cfg.oneSignalApiKey = ""
  => LET d == ev.doc
         r == ev.result
     IN /\ r.push = [kind |-> "result", success |-> FALSE,
                     error |-> "OneSignal not configured"]
        /\ "push" \notin r.called
        /\ ~r.threw
        /\ "inApp" \in d.channels =>
             /\ "inApp" \in r.attempted
             /\ r.inApp.success <=> ev.gw["inApp"] = "ok"
        /\ "email" \in d.channels
             /\ (d.notificationEmail # "" \/ ev.user.email # "") =>
             /\ "email" \in r.attempted
             /\ r.email.success <=> ev.gw["email"] = "ok"

\* push failed as not configured while email and in-app were delivered
C8_Witness ==
  /\ ev.kind = "send"
  /\ cfg.oneSignalApiKey = ""
  /\ ev.result.push.kind = "result"
  /\ ev.result.push.error = "OneSignal not configured"
  /\ ev.result.email.kind = "result" /\ ev.result.email.success
  /\ ev.result.inApp.kind = "result" /\ ev.result.inApp.success

\* C9 -- eligibility: with minutesUntilDue = floor((effective due date - now)
\* / 1 minute), effective due date = nextDueDate if it is a date, else
\* dueDate, processReminder looks up the user and dispatches only if
\* minutesUntilDue <= reminderTime, and stops as "not yet time" only if
\* minutesUntilDue > reminderTime.
C9_Eligibility ==
  LET Minutes(d, now) ==
        ((IF d.nextDueDate.kind = "date" THEN d.nextDueDate.t ELSE d.dueDate)
           - now) \div 60000
  IN /\ ev.kind = "process" =>
          /\ ev.minutesUntilDue = Minutes(ev.doc, ev.now)
          /\ ev.outcome \in {"dispatch", "noUser", "lookupRaised"} =>
               Minutes(ev.doc, ev.now) <= ev.doc.reminderTime
          /\ ev.outcome = "notYet" =>
               Minutes(ev.doc, ev.now) > ev.doc.reminderTime
          /\ Minutes(ev.doc, ev.now) > ev.doc.reminderTime =>
               scans[ev.scan].pc # "send" \/ Head(scans[ev.scan].list).id # ev.id
     /\ ev.kind = "send" => Minutes(ev.doc, ev.now) <= ev.doc.reminderTime

\* due in 90 minutes with a lead of 60 minutes: not yet time
C9_Witness ==
  /\ ev.kind = "process"
  /\ ev.doc.dueDate - ev.now = 90 * 60000
  /\ ev.doc.nextDueDate.kind = "absent"
  /\ ev.doc.reminderTime = 60
  /\ ev.outcome = "notYet"

\* C10 -- a scan at time now hands to processReminder exactly the active
\* reminders whose effective due date (nextDueDate if it is a date, else
\* dueDate, a stored null included) lies in [now, now + 2 hours].
C10_ScanSelection ==
  ev.kind = "scan" /\ ~ev.raised =>
    ev.found =
      { o \in ObIds :
          /\ rem[o].status = "active"
          /\ LET due == IF rem[o].nextDueDate.kind = "date"
                          THEN rem[o].nextDueDate.t ELSE rem[o].dueDate
             IN due >= ev.now /\ due <= ev.now + 2 * 3600000 }

\* C11 -- the system notifies before the reminder is due: an active,
\* never-notified reminder with a working enabled channel, whatever its lead
\* time, whose effective due date is 2 hours or more after the first scan of
\* a scheduler left running on its 15-minute cadence, has been dispatched at
\* or before its due date once that date has passed, and first at the first
\* scan at which minutesUntilDue <= reminderTime.
C11_NotifiedBeforeDue ==
  \A o \in ObIds :
    LET due == IF rem[o].nextDueDate.kind = "date"
                 THEN rem[o].nextDueDate.t ELSE rem[o].dueDate
        first == Clock0 + 900000
        last == rem[o].lastNotificationSent
    IN /\ rem[o].status = "active"
       /\ due >= first + 2 * 3600000
       /\ jobs # <<>>
       /\ clock > due
       => /\ last # <<>>
          /\ last[1] <= due
          /\ \A k \in 1 .. MaxTicks :
               Clock0 + k * 900000 < last[1] =>
                 (due - (Clock0 + k * 900000)) \div 60000 > rem[o].reminderTime

\* C12 -- overdue reminders are still notifiable: an active reminder whose
\* minutesUntilDue is negative at a scan and that is not inside the cooldown
\* is handed to processReminder by that scan, and processReminder, given a
\* reminder with negative minutesUntilDue outside the cooldown, goes on to
\* the user lookup and the dispatcher instead of stopping as "not yet time".
C12_OverdueNotifiable ==
  LET Minutes(d, now) ==
        ((IF d.nextDueDate.kind = "date" THEN d.nextDueDate.t ELSE d.dueDate)
           - now) \div 60000
      Recent(d, now) ==
        /\ d.lastNotificationSent # <<>>
        /\ now - d.lastNotificationSent[1] < 12 * 3600000
  IN /\ ev.kind = "scan" /\ ~ev.raised =>
          \A o \in ObIds :
            /\ rem[o].status = "active"
            /\ Minutes(rem[o], ev.now) < 0
            /\ ~Recent(rem[o], ev.now)
            => o \in ev.found
     /\ ev.kind = "process" /\ Minutes(ev.doc, ev.now) < 0
          /\ ~Recent(ev.doc, ev.now) =>
            ev.outcome \in {"dispatch", "noUser", "lookupRaised"}

\* C13 -- retention cleanup at time now, when the store answers, deletes
\* exactly the notifications with isRead = true and readAt earlier than now
\* minus 30 days: every unread notification and every notification read
\* within the last 30 days is kept, and no reminder or user is touched.
C13_RetentionCleanup ==
  [][cleanups' < cleanups =>
       LET limit == (clock - 15 * 86400000) - 15 * 86400000
           old == { n \in notifs :
                      /\ n.isRead = TRUE
                      /\ n.readAt # <<>>
                      /\ n.readAt[1] < limit }
       IN /\ ev'.kind = "cleanup"
          /\ ev'.now = clock
          /\ notifs' = IF ev'.raised THEN notifs ELSE notifs \ old
          /\ rem' = rem
          /\ users' = users]_vars

\* a cleanup has deleted the notification read 31 days ago and kept the one
\* read 29 days ago and an unread one
C13_Witness ==
  /\ ev.kind = "cleanup"
  /\ ~ev.raised
  /\ \E n \in ev.deleted : n.readAt[1] < ev.now - 86400000
  /\ \E n \in notifs : n.isRead /\ n.readAt # <<>>
  /\ \E n \in notifs : ~n.isRead

\* C14 -- per-reminder isolation within one scan: when processing a reminder
\* fails (the user lookup raises, the dispatcher reports failure, or the
\* save raises) the scan goes on with the reminders that remain, exactly as
\* the query returned them; a reminder leaves the scan's list only by being
\* processed; and the outcome of processing a reminder is decided by that
\* reminder, the user store and the time alone.
C14_Isolation ==
  /\ [](ev.kind = "process" =>
          LET d == ev.doc
              recent == /\ d.lastNotificationSent # <<>>
                        /\ ev.now - d.lastNotificationSent[1] < 12 * 3600000
              eligible == ev.minutesUntilDue <= d.reminderTime
          IN /\ ev.outcome = "suppressed" <=> recent
             /\ ev.outcome = "notYet" <=> ~recent /\ ~eligible
             /\ ev.outcome = "noUser" => d.user \notin DOMAIN users
             /\ ev.outcome = "dispatch" => d.user \in DOMAIN users)
  /\ [][\A s \in 1 .. MaxInFlight :
          LET sc == scans[s]
              failed ==
                /\ ev'.scan = s
                /\ \/ ev'.kind = "process" /\ ev'.outcome = "lookupRaised"
                   \/ ev'.kind = "send" /\ ~ev'.result.success
                   \/ ev'.kind = "save" /\ ~ev'.ok
          IN sc.pc # "idle" /\ scans'[s] # sc =>
               /\ ev'.kind \in {"process", "send", "save"}
               /\ ev'.scan = s
               /\ ev'.id = Head(sc.list).id
               /\ \/ scans'[s].list = sc.list /\ scans'[s].pc \in {"send", "save"}
                  \/ /\ Len(sc.list) > 1
                     /\ scans'[s].pc = "loop"
                     /\ scans'[s].list = Tail(sc.list)
                  \/ Len(sc.list) = 1 /\ scans'[s].pc = "idle"
               /\ failed =>
                    IF Len(sc.list) > 1
                      THEN /\ scans'[s].pc = "loop"
                           /\ scans'[s].list = Tail(sc.list)
                      ELSE scans'[s].pc = "idle"]_vars

\* the save of the first reminder has raised and the scan is about to
\* process the second reminder of its list
C14_Witness ==
  /\ ev.kind = "save"
  /\ ~ev.ok
  /\ scans[ev.scan].pc = "loop"
  /\ Head(scans[ev.scan].list).id # ev.id
  /\ rem[ev.id].lastNotificationSent = ev.old

\* C15 -- the owning user of an eligible reminder outside the cooldown is
\* not found: processReminder stops there without raising (the scan moves
\* on), the dispatcher is not invoked, no notification is created and
\* lastNotificationSent stays as it was; the dispatcher only ever runs for
\* a reminder whose user is stored.
C15_UserNotFound ==
  /\ [](/\ ev.kind = "process" /\ ev.doc.user \notin DOMAIN users =>
             ev.outcome # "dispatch"
        /\ ev.kind = "process" /\ ev.outcome = "noUser" =>
             /\ ev.doc.user \notin DOMAIN users
             /\ scans[ev.scan].pc \in {"idle", "loop"}
             /\ scans[ev.scan].pc = "loop" =>
                  Head(scans[ev.scan].list).id # ev.id
        /\ ev.kind = "send" =>
             /\ ev.doc.user \in DOMAIN users
             /\ ev.user = users[ev.doc.user])
  /\ [][\A s \in 1 .. MaxInFlight :
          /\ scans[s].pc = "loop"
          /\ scans'[s] # scans[s]
          /\ Head(scans[s].list).doc.user \notin DOMAIN users
          => /\ notifs' = notifs
             /\ rem' = rem
             /\ users' = users
             /\ scans'[s].pc # "send"]_vars

\* an eligible, never-notified reminder of a user that is not stored has
\* been processed
C15_Witness ==
  /\ ev.kind = "process"
  /\ ev.outcome = "noUser"
  /\ ev.doc.lastNotificationSent = <<>>
  /\ ev.minutesUntilDue <= ev.doc.reminderTime
  /\ ev.doc.user = "u3"

\* C16 -- nothing propagates to crash the scheduler: a scan whose query
\* raises ends there, dispatching nothing and changing no reminder, user,
\* notification or in-flight scan; a cleanup whose delete raises changes
\* nothing either; neither removes a periodic task (only stopAll does); and
\* whatever failed before, every registered task still runs its callback
\* whenever the clock reaches an instant of its cadence.
C16_NothingPropagates ==
  [][/\ ev'.kind = "scan" /\ ev' # ev /\ ev'.raised =>
          /\ ev'.found = {}
          /\ scans' = scans
          /\ rem' = rem /\ users' = users /\ notifs' = notifs
          /\ jobs' = jobs /\ cronTasks' = cronTasks
     /\ cleanups' < cleanups =>
          /\ ev'.kind = "cleanup"
          /\ ev'.raised => notifs' = notifs
          /\ scans' = scans /\ rem' = rem /\ users' = users
          /\ jobs' = jobs /\ cronTasks' = cronTasks
     /\ cronTasks' # cronTasks =>
          \/ ev'.kind = "stopAll" /\ cronTasks' = {} /\ jobs' = <<>>
          \/ cronTasks \subseteq cronTasks' /\ Len(jobs') = Len(jobs) + 2
     /\ clock' # clock =>
          /\ clock' % 900000 = 0 =>
               LET k == Cardinality({t \in cronTasks : t.name = "reminderCheck"})
               IN IF k = 0 THEN ev'.kind = "tick"
                  ELSE /\ ev'.kind = "scan" /\ ev'.origin = "cron"
                       /\ ev'.now = clock' /\ ev'.count = k
          /\ cleanups' =
               IF clock' % 86400000 = 7200000
                 THEN Cardinality({t \in cronTasks : t.name = "cleanup"})
                 ELSE 0]_vars

\* the query of a scheduled scan has raised with a reminder in the window;
\* no scan is in flight and both tasks are still registered
C16_Witness ==
  /\ ev.kind = "scan"
  /\ ev.raised
  /\ ev.origin = "cron"
  /\ ev.now = clock
  /\ \A s \in 1 .. MaxInFlight : scans[s].pc = "idle"
  /\ \E o \in ObIds :
       /\ rem[o].status = "active"
       /\ rem[o].nextDueDate.kind = "absent"
       /\ rem[o].dueDate >= clock /\ rem[o].dueDate <= clock + 7200000
  /\ Cardinality(cronTasks) = 2

\* C17 -- implicit retry by re-scanning: after a dispatch that failed to
\* deliver (the gateway or store of an attempted channel failed, or the
\* dispatch reports failure) processReminder does not go on to save
\* lastNotificationSent, so the reminder is not put into cooldown; and a
\* reminder that is outside the cooldown and eligible when a later scan
\* processes it is not suppressed.
C17_RetryAfterFailure ==
  /\ ev.kind = "send" =>
       LET r == ev.result
           undelivered ==
             \/ ~r.success
             \/ \E x \in {r.email, r.push, r.inApp} :
                  x.kind = "result" /\ ~x.success
       IN undelivered =>
            \/ scans[ev.scan].pc \in {"idle", "loop"}
            \/ Head(scans[ev.scan].list).id # ev.id
  /\ ev.kind = "process" /\ ev.minutesUntilDue <= ev.doc.reminderTime
       /\ ev.doc.lastNotificationSent = <<>> =>
         ev.outcome # "suppressed"

\* C18 -- double-send race: scans may overlap, and then a reminder can be
\* dispatched by two scans within 12 hours; every dispatch has passed the
\* cooldown check on the copy of the reminder its own scan read, so a
\* dispatch within 12 hours of the stored lastNotificationSent happens only
\* when that value was saved by another scan after this scan's query, and
\* two scans hold the same reminder past the check only when neither copy
\* was inside the cooldown.
C18_DoubleSendRace ==
  LET Recent(last, now) == last # <<>> /\ now - last[1] < 12 * 3600000
  IN /\ ev.kind = "send" =>
          /\ ~Recent(ev.doc.lastNotificationSent, ev.now)
          /\ Recent(rem[ev.id].lastNotificationSent, ev.now) =>
               rem[ev.id].lastNotificationSent # ev.doc.lastNotificationSent
     /\ \A s \in 1 .. MaxInFlight :
          scans[s].pc \in {"send", "save"} =>
            ~Recent(Head(scans[s].list).doc.lastNotificationSent, scans[s].pnow)

\* two overlapping scans have both dispatched the same reminder, 12 hours
\* apart at most, and neither has saved lastNotificationSent yet
C18_Witness ==
  /\ ev.kind = "send"
  /\ rem[ev.id].lastNotificationSent = <<>>
  /\ scans[ev.scan].pc = "save"
  /\ \E s \in 1 .. MaxInFlight :
       /\ s # ev.scan
       /\ scans[s].pc = "save"
       /\ Head(scans[s].list).id = ev.id
       /\ ev.now - scans[s].pnow < 12 * 3600000
       /\ scans[s].pnow - ev.now < 12 * 3600000

\* C19 -- frame condition of the pipeline: in every step that is not an
\* edit by the CRUD layer, a reminder changes in no field other than
\* lastNotificationSent (status, due dates, lead minutes and channels stay),
\* no user changes, and the notifications change only by the one unread
\* record the in-app sender creates for the dispatched reminder or by the
\* records a cleanup deletes.
C19_Frame ==
  [][~(ev'.kind = "edit" /\ ev' # ev) =>
       /\ \A o \in ObIds :
            [rem'[o] EXCEPT !.lastNotificationSent =
                              rem[o].lastNotificationSent] = rem[o]
       /\ users' = users
       /\ notifs' # notifs =>
            \/ /\ ev'.kind = "send"
               /\ ev'.result.inApp.kind = "result"
               /\ ev'.result.inApp.success
               /\ notifs \subseteq notifs'
               /\ Cardinality(notifs' \ notifs) = 1
               /\ \A n \in notifs' \ notifs :
                    n.relatedId = ev'.id /\ ~n.isRead /\ n.readAt = <<>>
            \/ /\ ev'.kind = "cleanup"
               /\ cleanups' < cleanups
               /\ notifs' \subseteq notifs]_vars

\* the pipeline has created a notification for a reminder and then saved
\* its lastNotificationSent, after the CRUD layer changed its nextDueDate
C19_Witness ==
  /\ ev.kind = "save"
  /\ ev.ok
  /\ rem[ev.id].lastNotificationSent = <<ev.now>>
  /\ rem[ev.id].nextDueDate.kind = "date"
  /\ rem[ev.id].dueDate < rem[ev.id].nextDueDate.t
  /\ ev.old # <<>>
  /\ \E n \in notifs : n.relatedId = ev.id /\ ~n.isRead /\ n.id # 3

\* C20 -- stopAll does not cancel a scan in flight: it leaves every scan in
\* flight (and every reminder, notification and pending cleanup) as it is;
\* while the scheduler is stopped a scan in flight still goes through its
\* dispatch and its save, which writes lastNotificationSent, and then moves
\* on to its next reminder; only the ticks that follow start no scan.
C20_StopKeepsInFlight ==
  [][/\ ev'.kind = "stopAll" /\ ev' # ev =>
          /\ scans' = scans
          /\ cleanups' = cleanups
          /\ rem' = rem /\ notifs' = notifs
     /\ cronTasks = {} /\ clock' # clock => scans' = scans
     /\ \A s \in 1 .. MaxInFlight :
          jobs = <<>> /\ cronTasks = {} /\ scans'[s] # scans[s] =>
            /\ scans[s].pc = "send" =>
                 /\ ev'.kind = "send" /\ ev'.scan = s
                 /\ ev'.result.success => scans'[s].pc = "save"
            /\ scans[s].pc = "save" =>
                 /\ ev'.kind = "save" /\ ev'.scan = s
                 /\ ev'.ok =>
                      rem'[Head(scans[s].list).id].lastNotificationSent
                        = <<scans[s].pnow>>
                 /\ Len(scans[s].list) > 1 =>
                      /\ scans'[s].pc = "loop"
                      /\ scans'[s].list = Tail(scans[s].list)]_vars

\* stopAll has just stopped both tasks while a scan is about to dispatch its
\* first reminder and has another one left
C20_Witness ==
  /\ ev.kind = "stopAll"
  /\ ev.stopped = 2
  /\ jobs = <<>>
  /\ cronTasks = {}
  /\ \E s \in 1 .. MaxInFlight :
       /\ scans[s].pc = "send"
       /\ Len(scans[s].list) = 2

\* C21 -- the cooldown starts only after a successful notify: after a
\* dispatch in which no enabled channel reported success = true (every
\* sender that ran failed, or no sender was invoked) processReminder does
\* not go on to save lastNotificationSent, so the reminder stays outside
\* the cooldown.
C21_CooldownAfterSuccess ==
  ev.kind = "send" =>
    LET r == ev.result
        delivered ==
          \E x \in {r.email, r.push, r.inApp} :
            x.kind = "result" /\ x.success
    IN scans[ev.scan].pc = "save" /\ Head(scans[ev.scan].list).id = ev.id
         => delivered

\* C22 -- at most one notification per due occurrence, scans not
\* overlapping: the pipeline never saves lastNotificationSent for a
\* reminder at a time inside the 2 hours up to its effective due date when
\* the value it replaces is itself inside those 2 hours; a reminder already
\* notified in the window is suppressed by every later scan of the window.
C22_OncePerOccurrence ==
  /\ [](ev.kind = "process" =>
          LET d == ev.doc
              due == IF d.nextDueDate.kind = "date"
                       THEN d.nextDueDate.t ELSE d.dueDate
          IN /\ d.lastNotificationSent # <<>>
             /\ d.lastNotificationSent[1] >= due - 2 * 3600000
             /\ d.lastNotificationSent[1] <= due
             /\ ev.now >= d.lastNotificationSent[1]
             /\ ev.now <= due
             => ev.outcome = "suppressed")
  /\ [][ev'.kind = "save" /\ ev'.ok /\ ev' # ev =>
          LET d == rem'[ev'.id]
              due == IF d.nextDueDate.kind = "date"
                       THEN d.nextDueDate.t ELSE d.dueDate
              InWindow2h(t) == t >= due - 2 * 3600000 /\ t <= due
          IN ~(/\ ev'.old # <<>>
               /\ InWindow2h(ev'.old[1])
               /\ InWindow2h(ev'.now))]_vars

\* notified 90 minutes before the due date, the reminder has been
\* suppressed by a later scan that still found it in the window
C22_Witness ==
  /\ ev.kind = "process"
  /\ ev.outcome = "suppressed"
  /\ ev.doc.nextDueDate.kind = "absent"
  /\ ev.doc.lastNotificationSent = <<ev.doc.dueDate - 90 * 60000>>
  /\ ev.now > ev.doc.dueDate - 90 * 60000
  /\ ev.now <= ev.doc.dueDate
  /\ rem[ev.id].lastNotificationSent = ev.doc.lastNotificationSent

====
